---- MODULE Spec2Model ----
(***************************************************************************)
(* Model of deepfence/powerpipe, src/internal/controldisplay/              *)
(* formatter_fs.go: the template synchronizer (EnsureTemplates) and the    *)
(* command hooks (preRunHook / postRunHook) with the configuration and     *)
(* logger bootstrap they drive.                                            *)
(***************************************************************************)
EXTENDS Integers, Sequences, FiniteSets, TLC

VARIABLES
    builtinTemplateFS,  \* the embedded file system, per bundle
    installed,          \* <template-dir>/<bundle> on disk, per bundle
    templateDirExists,  \* <install-dir>/check/templates exists
    runs,               \* number of EnsureTemplates calls made
    before,             \* `installed` when the last call started
    lastErr,            \* what the last call returned: NoFail for nil, else the
                        \* operation whose error it returned
    prevErr,            \* what the call before the last returned
    writes              \* the disk writes the last call made, in order

tvars == <<builtinTemplateFS, installed, templateDirExists, runs, before,
           lastErr, prevErr, writes>>

VARIABLES
    pc,                 \* where the process is in preRunHook / postRunHook
    cmdName,            \* cmd.Name() of the active command
    env,                \* the environment of the process
    envAtStart,         \* the environment when preRunHook was entered
    cfgFile,            \* what the config files on disk set
    savedToken,         \* the token cloud.LoadToken finds ("" for none)
    installDirExists,   \* the install directory exists on disk
    viperSet,           \* the keys set with viper.Set
    viperDefaults,      \* the values set with viper.SetDefault, per key
    GlobalConfig,       \* steampipeconfig.GlobalConfig
    SteampipeDir,       \* filepaths.SteampipeDir
    logger,             \* destination and level of the current logger
    logBuffer,          \* the lines in preRunHook's logBuffer
    logFile,            \* the lines written to the rotating log file
    banners,            \* per logger construction: was the banner printed,
                        \* and did it reach the destination
    abortReason,        \* why the process aborted, when it did
    waitForTasksChannel,
    tasksCancelFn,
    taskState,          \* the background task: none, running, finished
    chClosed,           \* the task closed its channel
    cancelCalled,       \* the task's context was cancelled
    postBy,             \* which case of postRunHook's select ran
    memoryLimit         \* the limit given to debug.SetMemoryLimit (0: none)

hvars == <<pc, cmdName, env, envAtStart, cfgFile, savedToken, installDirExists,
           viperSet, viperDefaults, GlobalConfig, SteampipeDir, logger,
           logBuffer, logFile, banners, abortReason, waitForTasksChannel,
           tasksCancelFn, taskState, chClosed, cancelCalled, postBy, memoryLimit>>

vars == <<tvars, hvars>>

-----------------------------------------------------------------------------
(* Bounds *)

\* consecutive EnsureTemplates calls in one behaviour
MaxRuns == 2
\* lines the configuration loaders log between the two logger constructions
MaxBufferedLines == 1

-----------------------------------------------------------------------------
(* Files and their contents *)

Absent == "<absent>"

\* bytes of a version.json
V1 == "{\"version\":\"1\"}"
V2 == "{\"version\":\"2\"}"
Malformed == "{\"version\":"
\* a file whose write failed after the truncating open
Truncated == ""

\* the bundles under templates/, in the order fs.ReadDir lists them (by name)
BundleOrder == <<"html", "md">>
Bundles == {BundleOrder[i] : i \in 1..Len(BundleOrder)}

\* the entries a bundle can have, in the order fs.ReadDir lists them (by name);
\* "sub" is a subdirectory holding one file
EntryOrder == <<"a.tmpl", "sub", "version.json">>
EmbNames == {"a.tmpl", "version.json"}
\* the installed copy can also hold a file no bundle ships
DiskNames == EmbNames \cup {"old.tmpl"}

\* the contents tried for each file: every case for the first bundle, the
\* cases that make the second bundle sync or not for the second
EmbContents(b, f) ==
    IF f = "version.json"
    THEN (IF b = BundleOrder[1] THEN {Absent, V1, V2, Malformed} ELSE {V1, V2})
    ELSE {"A"}
EmbSubs(b) == IF b = BundleOrder[1] THEN BOOLEAN ELSE {FALSE}
DiskContents(b, f) ==
    IF f = "version.json"
    THEN (IF b = BundleOrder[1] THEN {Absent, V1, V2, Malformed} ELSE {Absent, V1})
    ELSE IF f = "a.tmpl"
    THEN (IF b = BundleOrder[1] THEN {Absent, "B"} ELSE {"B"})
    ELSE (IF b = BundleOrder[1] THEN {Absent, "O"} ELSE {Absent})

\* json.Unmarshal of the bytes into a TemplateVersionFile
Unmarshal(data) ==
    IF data = V1 THEN [err |-> FALSE, Version |-> "1"]
    ELSE IF data = V2 THEN [err |-> FALSE, Version |-> "2"]
    ELSE [err |-> TRUE, Version |-> ""]

\* the version field read from the bytes of a version file, or from its
\* absence: the common tail of the two version readers
VersionOf(data) ==
    IF data = Absent THEN ""
    ELSE IF Unmarshal(data).err THEN ""
    ELSE Unmarshal(data).Version

getCurrentTemplateVersion(disk, b) ==
    IF ~disk[b].exists THEN "" ELSE VersionOf(disk[b].files["version.json"])

getEmbeddedTemplateVersion(b) ==
    VersionOf(builtinTemplateFS[b].files["version.json"])

-----------------------------------------------------------------------------
(* I/O failures: the operation that fails in a call, if any *)

FP(op, b, f) == [op |-> op, bundle |-> b, file |-> f]
NoFail == FP("none", "-", "-")
\* no call has been made yet
NotRun == FP("not-run", "-", "-")
FailPoints ==
    {FP("readdir-root", "-", "-")}
    \cup {FP(op, b, "-") : op \in {"mkdir", "readdir"}, b \in Bundles}
    \cup {FP(op, b, f) : op \in {"read", "write-open", "write-partial"},
                         b \in Bundles, f \in EmbNames}

\* the entries of templates/<b>, as fs.ReadDir returns them
ReadDir(b) ==
    LET present(e) == IF e = "sub" THEN builtinTemplateFS[b].sub
                      ELSE builtinTemplateFS[b].files[e] # Absent
        F[i \in 0..Len(EntryOrder)] ==
            IF i = 0 THEN <<>>
            ELSE IF present(EntryOrder[i])
                 THEN Append(F[i-1], [name |-> EntryOrder[i],
                                      isDir |-> EntryOrder[i] = "sub"])
                 ELSE F[i-1]
    IN F[Len(EntryOrder)]

W(op, b, f) == [op |-> op, bundle |-> b, file |-> f]

\* the loop of writeTemplate over the entries from the i-th on; st is the
\* disk, the writes made so far and the error
RECURSIVE writeEntries(_, _, _, _)
writeEntries(b, i, st, fail) ==
    LET entries == ReadDir(b) IN
    IF i > Len(entries) THEN st
    ELSE LET e == entries[i] IN
         IF e.isDir THEN writeEntries(b, i + 1, st, fail)
         ELSE IF fail = FP("read", b, e.name) THEN [st EXCEPT !.err = fail]
         ELSE IF fail = FP("write-open", b, e.name) THEN [st EXCEPT !.err = fail]
         ELSE IF fail = FP("write-partial", b, e.name)
              THEN [st EXCEPT !.err = fail,
                              !.disk[b].files[e.name] = Truncated,
                              !.writes = Append(@, W("write", b, e.name))]
         ELSE writeEntries(b, i + 1,
                  [st EXCEPT !.disk[b].files[e.name] = builtinTemplateFS[b].files[e.name],
                             !.writes = Append(@, W("write", b, e.name))],
                  fail)

\* writeTemplate emptying the target directory before it copies
writeTemplateCleanFirst(b, st, fail) ==
    IF fail = FP("mkdir", b, "-") THEN [st EXCEPT !.err = fail]
    ELSE LET st1 == [st EXCEPT !.disk[b].exists = TRUE,
                               !.disk[b].files = [f \in DiskNames |-> Absent],
                               !.writes = Append(@, W("mkdir", b, "-"))]
         IN IF fail = FP("readdir", b, "-") THEN [st1 EXCEPT !.err = fail]
            ELSE writeEntries(b, 1, st1, fail)

\* writeTemplate going on to the next entry after a failed one, and returning
\* the error at the end
RECURSIVE writeEntriesKeepGoing(_, _, _, _)
writeEntriesKeepGoing(b, i, st, fail) ==
    LET entries == ReadDir(b) IN
    IF i > Len(entries) THEN st
    ELSE LET e == entries[i] IN
         IF e.isDir THEN writeEntriesKeepGoing(b, i + 1, st, fail)
         ELSE IF fail \in {FP("read", b, e.name), FP("write-open", b, e.name)}
              THEN writeEntriesKeepGoing(b, i + 1, [st EXCEPT !.err = fail], fail)
         ELSE IF fail = FP("write-partial", b, e.name)
              THEN writeEntriesKeepGoing(b, i + 1,
                       [st EXCEPT !.err = fail,
                                  !.disk[b].files[e.name] = Truncated,
                                  !.writes = Append(@, W("write", b, e.name))],
                       fail)
         ELSE writeEntriesKeepGoing(b, i + 1,
                  [st EXCEPT !.disk[b].files[e.name] = builtinTemplateFS[b].files[e.name],
                             !.writes = Append(@, W("write", b, e.name))],
                  fail)

writeTemplateKeepGoing(b, st, fail) ==
    IF fail = FP("mkdir", b, "-") THEN [st EXCEPT !.err = fail]
    ELSE LET st1 == [st EXCEPT !.disk[b].exists = TRUE,
                               !.writes = Append(@, W("mkdir", b, "-"))]
         IN IF fail = FP("readdir", b, "-") THEN [st1 EXCEPT !.err = fail]
            ELSE writeEntriesKeepGoing(b, 1, st1, fail)

writeTemplate(b, st, fail) ==
    IF fail = FP("mkdir", b, "-") THEN [st EXCEPT !.err = fail]
    ELSE LET st1 == [st EXCEPT !.disk[b].exists = TRUE,
                               !.writes = Append(@, W("mkdir", b, "-"))]
         IN IF fail = FP("readdir", b, "-") THEN [st1 EXCEPT !.err = fail]
            ELSE writeEntries(b, 1, st1, fail)

\* the loop body without the version comparison
syncBundleAlways(b, st, fail) == writeTemplate(b, st, fail)

\* one iteration of the loop of EnsureTemplates, for bundle b
syncBundle(b, st, fail) ==
    IF getCurrentTemplateVersion(st.disk, b) # getEmbeddedTemplateVersion(b)
    THEN writeTemplate(b, st, fail)
    ELSE st

\* the loop of EnsureTemplates from the i-th bundle on
RECURSIVE ensureLoop(_, _, _)
ensureLoop(i, st, fail) ==
    IF i > Len(BundleOrder) THEN st
    ELSE LET st1 == syncBundle(BundleOrder[i], st, fail) IN
         IF st1.err # NoFail THEN st1 ELSE ensureLoop(i + 1, st1, fail)

ensureTemplatesResult(disk, fail) ==
    LET st0 == [disk |-> disk, writes |-> <<>>, err |-> NoFail] IN
    IF fail = FP("readdir-root", "-", "-") THEN [st0 EXCEPT !.err = fail]
    ELSE ensureLoop(1, st0, fail)

-----------------------------------------------------------------------------
(* The template synchronizer *)

EmbBundles(b) ==
    {eb \in [files : [EmbNames -> {Absent, V1, V2, Malformed, "A"}], sub : EmbSubs(b)] :
        \A f \in EmbNames : eb.files[f] \in EmbContents(b, f)}

\* an installed copy is missing, or a directory of files; nothing has ever
\* put a subdirectory in it
DiskBundles(b) ==
    {[exists |-> FALSE, files |-> [f \in DiskNames |-> Absent], sub |-> FALSE]}
    \cup {db \in [exists : {TRUE},
                  files : [DiskNames -> {Absent, V1, V2, Malformed, "A", "B", "O"}],
                  sub : {FALSE}] :
            \A f \in DiskNames : db.files[f] \in DiskContents(b, f)}

InitTemplates ==
    /\ builtinTemplateFS \in {fs \in [Bundles -> UNION {EmbBundles(b) : b \in Bundles}] :
                                 \A b \in Bundles : fs[b] \in EmbBundles(b)}
    /\ installed \in {d \in [Bundles -> UNION {DiskBundles(b) : b \in Bundles}] :
                         \A b \in Bundles : d[b] \in DiskBundles(b)}
    /\ templateDirExists = (\E b \in Bundles : installed[b].exists)
    /\ runs = 0
    /\ before = installed
    /\ lastErr = NotRun
    /\ prevErr = NotRun
    /\ writes = <<>>

EnsureTemplates ==
    /\ runs < MaxRuns
    /\ \E fail \in FailPoints \cup {NoFail} :
         LET r == ensureTemplatesResult(installed, fail) IN
         /\ installed' = r.disk
         /\ writes' = r.writes
         /\ lastErr' = r.err
         /\ templateDirExists' = (templateDirExists \/ fail # FP("readdir-root", "-", "-"))
    /\ before' = installed
    /\ prevErr' = lastErr
    /\ runs' = runs + 1
    /\ UNCHANGED <<builtinTemplateFS, hvars>>

-----------------------------------------------------------------------------
(* The command hooks: environment, configuration and logging *)

Nil == "<nil>"
Unset == "<unset>"

Commands == {"completion", "check", "plugin-manager"}
\* task.IsPluginManagerCmd
IsPluginManagerCmd(cmd) == cmd = "plugin-manager"

\* environment variables: sdklogging.EnvLogLevel, the legacy log-level
\* variable, the telemetry variable and constants.EnvCloudToken
EnvVars == {"EnvLogLevel", "LegacyLogLevel", "EnvTelemetry", "EnvCloudToken"}
\* sdklogging.LegacyLogLevelEnvVars, in order
LegacyLogLevelEnvVars == <<"LegacyLogLevel">>

\* the viper keys: constants.ArgLogLevel, ArgTelemetry, ArgCloudToken,
\* ArgInstallDir, ArgMemoryMaxMb
ConfigKeys == {"log_level", "telemetry", "cloud_token", "install_dir", "memory_max_mb"}

\* constants.TelemetryLevels
TelemetryLevels == {"none", "info"}

\* log levels, lowest first, as hclog orders them
LevelOrder == <<"TRACE", "DEBUG", "INFO", "WARN", "ERROR">>
LevelNum(l) == CHOOSE i \in 1..Len(LevelOrder) : LevelOrder[i] = l

\* sdklogging.LogLevel(): the current variable, else a legacy one, else the
\* SDK's default level
DefaultLogLevel == "WARN"
LogLevel(e) ==
    IF e["EnvLogLevel"] # Unset THEN e["EnvLogLevel"]
    ELSE IF \E i \in 1..Len(LegacyLogLevelEnvVars) : e[LegacyLogLevelEnvVars[i]] # Unset
    THEN e[LegacyLogLevelEnvVars[
             CHOOSE i \in 1..Len(LegacyLogLevelEnvVars) :
                /\ e[LegacyLogLevelEnvVars[i]] # Unset
                /\ \A j \in 1..(i-1) : e[LegacyLogLevelEnvVars[j]] = Unset]]
    ELSE DefaultLogLevel

\* envLogLevelSet ignoring the legacy variables
envLogLevelSetCurrentOnly(e) == e["EnvLogLevel"] # Unset

envLogLevelSet(e) ==
    \/ e["EnvLogLevel"] # Unset
    \/ \E i \in 1..Len(LegacyLogLevelEnvVars) : e[LegacyLogLevelEnvVars[i]] # Unset

\* steampipeconfig.GlobalConfig before a configuration is stored in it
NilConfig == [loaded |-> FALSE, log_level |-> Nil, telemetry |-> Nil, cloud_token |-> Nil]
\* the configuration LoadSteampipeConfig builds from the config files
LoadSteampipeConfig(c) ==
    [loaded |-> TRUE, log_level |-> c["log_level"], telemetry |-> c["telemetry"],
     cloud_token |-> c["cloud_token"]]

logLevelNeedsReset(e, gc) ==
    LET envLogLevelIsSet == envLogLevelSet(e)
        generalOptionsSet == (gc.loaded /\ gc.log_level # Nil)
    IN ~envLogLevelIsSet /\ generalOptionsSet

\* viper.GetString / viper.Get of a key nothing but defaults were given for
viperGet(defs, key) == defs[key]

-----------------------------------------------------------------------------
(* Logging *)

Line(lvl, msg) == [lvl |-> lvl, msg |-> msg]
\* the six [INFO] lines of the banner, as one entry
Banner == Line("INFO", "banner")

\* log.Printf through the hclog writer with InferLevels: the line is dropped
\* below the logger's level, else appended to the logger's destination
Printf(L, line) ==
    IF L.logger.dest = "none" THEN L
    ELSE IF LevelNum(line.lvl) < LevelNum(L.logger.level) THEN L
    ELSE IF L.logger.dest = "buffer"
         THEN [L EXCEPT !.logBuffer = Append(@, line)]
         ELSE [L EXCEPT !.logFile = Append(@, line)]

\* createLogger; L holds logger, logBuffer, logFile and banners
createLogger(L, cmd, e, spDir) ==
    IF IsPluginManagerCmd(cmd) THEN L
    ELSE LET level == LogLevel(e)
             toBuffer == (spDir = "")
             L1 == [L EXCEPT
                      !.logger = [dest |-> IF toBuffer THEN "buffer" ELSE "file",
                                  level |-> level],
                      !.logFile = IF toBuffer THEN @ ELSE @ \o L.logBuffer]
             first == Len(L.logBuffer) = 0
             L2 == IF first THEN Printf(L1, Banner) ELSE L1
         IN [L2 EXCEPT !.banners =
                Append(@, [printed |-> first,
                           written |-> first /\ LevelNum("INFO") >= LevelNum(level)])]

LogState == [logger |-> logger, logBuffer |-> logBuffer, logFile |-> logFile,
             banners |-> banners]

-----------------------------------------------------------------------------
(* Configuration *)

\* bootstrapViper: the built-in defaults
bootstrapViper(defs, mem) ==
    [defs EXCEPT !["telemetry"] = "info", !["install_dir"] = "dir",
                 !["memory_max_mb"] = mem]

\* GlobalConfig.ConfigMap(): the keys the config files set
ConfigMap(gc) == {k \in {"log_level", "telemetry", "cloud_token"} : gc[k] # Nil}

SetDefaultsFromConfig(defs, gc) ==
    [k \in ConfigKeys |-> IF k \in ConfigMap(gc) THEN gc[k] ELSE defs[k]]

\* SetDefaultFromEnv: the variable's value, when it is set, becomes the default
SetDefaultFromEnv(defs, e, k, key) ==
    IF e[k] # Unset THEN [defs EXCEPT ![key] = e[k]] ELSE defs

\* setDefaultsFromEnv: the environment's log level (a legacy variable, then
\* the current one) and telemetry
setDefaultsFromEnv(defs, e) ==
    LET d1 == SetDefaultFromEnv(defs, e, "LegacyLogLevel", "log_level")
        d2 == SetDefaultFromEnv(d1, e, "EnvLogLevel", "log_level")
    IN SetDefaultFromEnv(d2, e, "EnvTelemetry", "telemetry")

\* setCloudTokenDefault with the two defaults set in the other order
setCloudTokenDefaultEnvFirst(defs, e, saved) ==
    LET d1 == SetDefaultFromEnv(defs, e, "EnvCloudToken", "cloud_token")
    IN IF saved # "" THEN [d1 EXCEPT !["cloud_token"] = saved] ELSE d1

setCloudTokenDefault(defs, e, saved) ==
    LET d1 == IF saved # "" THEN [defs EXCEPT !["cloud_token"] = saved] ELSE defs
    IN SetDefaultFromEnv(d1, e, "EnvCloudToken", "cloud_token")

\* validateConfig without the telemetry check
validateConfigNoTelemetry(defs, diagOk) ==
    IF ~diagOk THEN "validate-diagnostics" ELSE "none"

\* validateConfig: the error it returns ("none" for nil)
validateConfig(defs, diagOk) ==
    IF viperGet(defs, "telemetry") \notin TelemetryLevels THEN "validate-telemetry"
    ELSE IF ~diagOk THEN "validate-diagnostics"
    ELSE "none"

\* ensureInstallDir: its two log lines, through the current logger
ensureInstallDirLog(L, exists) ==
    LET L1 == Printf(L, Line("TRACE", "ensureInstallDir"))
    IN IF exists THEN L1 ELSE Printf(L1, Line("TRACE", "creating install dir"))

\* n lines logged by the loaders initGlobalConfig calls
RECURSIVE LoaderLines(_, _)
LoaderLines(L, n) ==
    IF n = 0 THEN L ELSE LoaderLines(Printf(L, Line("WARN", "loader")), n - 1)

Faults == {"none", "bootstrap", "mkdir", "load", "token", "diagnostics"}

\* initGlobalConfig followed by preRunHook's FailOnError: the stores it
\* leaves and the error that aborts the process ("none" when it succeeds).
\* fault is the collaborator that fails, n the lines the loaders log, mem the
\* configured memory ceiling.
initGlobalConfig(fault, n, mem) ==
    LET s0 == [defs |-> viperDefaults, gc |-> GlobalConfig, dirExists |-> installDirExists,
               spDir |-> SteampipeDir, L |-> LogState, err |-> "none"]
    IN IF fault = "bootstrap" THEN [s0 EXCEPT !.err = "bootstrap"]
       ELSE
       LET d1 == bootstrapViper(viperDefaults, mem)
           L1 == ensureInstallDirLog(LogState, installDirExists)
       IN IF ~installDirExists /\ fault = "mkdir"
          THEN [s0 EXCEPT !.defs = d1, !.L = L1, !.err = "mkdir"]
          ELSE
          LET s1 == [s0 EXCEPT !.defs = d1, !.dirExists = TRUE,
                               !.spDir = viperGet(d1, "install_dir"),
                               !.L = LoaderLines(L1, n)]
          IN IF fault = "load" THEN [s1 EXCEPT !.err = "load"]
             ELSE
             LET gc == LoadSteampipeConfig(cfgFile)
                 d2 == SetDefaultsFromConfig(d1, gc)
                 d3 == setDefaultsFromEnv(d2, env)
                 s2 == [s1 EXCEPT !.gc = gc, !.defs = d3]
             IN IF fault = "token" THEN [s2 EXCEPT !.err = "token"]
                ELSE
                LET d4 == setCloudTokenDefault(d3, env, savedToken)
                IN [s2 EXCEPT !.defs = d4,
                              !.err = validateConfig(d4, fault # "diagnostics")]

-----------------------------------------------------------------------------
(* preRunHook, step by step *)

hookInputs == <<cmdName, cfgFile, savedToken, envAtStart>>
taskVars == <<waitForTasksChannel, tasksCancelFn, taskState, chClosed, cancelCalled, postBy>>
logVars == <<logger, logBuffer, logFile, banners>>
configVars == <<viperDefaults, GlobalConfig, SteampipeDir, installDirExists>>

\* preRunHook up to the check of the command's name, with the check left out
PreRunRecordNoShortCircuit ==
    /\ pc = "start"
    /\ viperSet' = {"active_command", "active_command_args", "is_terminal_tty"}
    /\ pc' = "logger1"
    /\ UNCHANGED <<hookInputs, env, taskVars, logVars, configVars, abortReason,
                   memoryLimit, tvars>>

\* lines 177-184: record the command, return at once for "completion"
PreRunRecord ==
    /\ pc = "start"
    /\ viperSet' = {"active_command", "active_command_args", "is_terminal_tty"}
    /\ pc' = IF cmdName = "completion" THEN "ran" ELSE "logger1"
    /\ UNCHANGED <<hookInputs, env, taskVars, logVars, configVars, abortReason,
                   memoryLimit, tvars>>

\* lines 188-192: the buffer and the first logger
CreateLogger1 ==
    /\ pc = "logger1"
    /\ LET L == createLogger(LogState, cmdName, env, SteampipeDir) IN
         /\ logger' = L.logger /\ logBuffer' = L.logBuffer
         /\ logFile' = L.logFile /\ banners' = L.banners
    /\ pc' = "config"
    /\ UNCHANGED <<hookInputs, env, taskVars, configVars, viperSet, abortReason,
                   memoryLimit, tvars>>

\* lines 196-200: initGlobalConfig, and the abort on its error
InitGlobalConfig ==
    /\ pc = "config"
    /\ \E fault \in Faults, n \in 0..MaxBufferedLines, mem \in {0, 1} :
         LET r == initGlobalConfig(fault, n, mem) IN
         /\ viperDefaults' = r.defs
         /\ GlobalConfig' = r.gc
         /\ installDirExists' = r.dirExists
         /\ SteampipeDir' = r.spDir
         /\ logger' = r.L.logger /\ logBuffer' = r.L.logBuffer
         /\ logFile' = r.L.logFile /\ banners' = r.L.banners
         /\ abortReason' = r.err
         /\ pc' = IF r.err = "none" THEN "loglevel" ELSE "aborted"
    /\ UNCHANGED <<hookInputs, env, taskVars, viperSet, memoryLimit, tvars>>

\* lines 203-212: hand the configured log level to the environment
ResetLogLevel ==
    /\ pc = "loglevel"
    /\ env' = IF logLevelNeedsReset(env, GlobalConfig)
              THEN [env EXCEPT !["EnvLogLevel"] = viperGet(viperDefaults, "log_level")]
              ELSE env
    /\ pc' = "logger2"
    /\ UNCHANGED <<hookInputs, taskVars, logVars, configVars, viperSet, abortReason,
                   memoryLimit, tvars>>

\* line 217: the second logger
CreateLogger2 ==
    /\ pc = "logger2"
    /\ LET L == createLogger(LogState, cmdName, env, SteampipeDir) IN
         /\ logger' = L.logger /\ logBuffer' = L.logBuffer
         /\ logFile' = L.logFile /\ banners' = L.banners
    /\ pc' = "tasks"
    /\ UNCHANGED <<hookInputs, env, taskVars, configVars, viperSet, abortReason,
                   memoryLimit, tvars>>

\* line 220 and runScheduledTasks
RunScheduledTasks ==
    /\ pc = "tasks"
    /\ IF IsPluginManagerCmd(cmdName)
       THEN /\ waitForTasksChannel' = Nil
            /\ UNCHANGED <<tasksCancelFn, taskState>>
       ELSE /\ tasksCancelFn' = "cancelFn"
            /\ waitForTasksChannel' = "ch"
            /\ taskState' = "running"
    /\ pc' = "memory"
    /\ UNCHANGED <<hookInputs, env, chClosed, cancelCalled, postBy, logVars,
                   configVars, viperSet, abortReason, memoryLimit, tvars>>

\* line 223 and setMemoryLimit
SetMemoryLimit ==
    /\ pc = "memory"
    /\ LET maxMemoryBytes == viperGet(viperDefaults, "memory_max_mb") * 1024 * 1024 IN
         memoryLimit' = IF maxMemoryBytes > 0 THEN maxMemoryBytes ELSE memoryLimit
    /\ pc' = "ran"
    /\ UNCHANGED <<hookInputs, env, taskVars, logVars, configVars, viperSet,
                   abortReason, tvars>>

-----------------------------------------------------------------------------
(* The background task and postRunHook *)

\* the task runner finishes and closes the channel RunTasks returned
TaskFinish ==
    /\ taskState = "running"
    /\ pc \in {"memory", "ran", "postWait", "postDone"}
    /\ taskState' = "finished"
    /\ chClosed' = TRUE
    /\ UNCHANGED <<pc, hookInputs, env, waitForTasksChannel, tasksCancelFn,
                   cancelCalled, postBy, logVars, configVars, viperSet, abortReason,
                   memoryLimit, tvars>>

\* postRunHook up to its select
PostRunEnter ==
    /\ pc = "ran"
    /\ pc' = IF waitForTasksChannel # Nil THEN "postWait" ELSE "postDone"
    /\ UNCHANGED <<hookInputs, env, taskVars, logVars, configVars, viperSet,
                   abortReason, memoryLimit, tvars>>

\* the timeout case returning without the cancel
PostTimeoutNoCancel ==
    /\ pc = "postWait"
    /\ postBy' = "timeout"
    /\ pc' = "postDone"
    /\ UNCHANGED <<hookInputs, env, waitForTasksChannel, tasksCancelFn, taskState,
                   chClosed, cancelCalled, logVars, configVars, viperSet, abortReason,
                   memoryLimit, tvars>>

\* case <-time.After(100 * time.Millisecond)
PostTimeout ==
    /\ pc = "postWait"
    /\ tasksCancelFn # Nil
    /\ cancelCalled' = TRUE
    /\ postBy' = "timeout"
    /\ pc' = "postDone"
    /\ UNCHANGED <<hookInputs, env, waitForTasksChannel, tasksCancelFn, taskState,
                   chClosed, logVars, configVars, viperSet, abortReason,
                   memoryLimit, tvars>>

\* case <-waitForTasksChannel
PostReceive ==
    /\ pc = "postWait"
    /\ chClosed
    /\ postBy' = "signal"
    /\ pc' = "postDone"
    /\ UNCHANGED <<hookInputs, env, waitForTasksChannel, tasksCancelFn, taskState,
                   chClosed, cancelCalled, logVars, configVars, viperSet, abortReason,
                   memoryLimit, tvars>>

-----------------------------------------------------------------------------
(* Specifications *)

EnvValues(k) ==
    IF k = "EnvLogLevel" THEN {Unset, "INFO", "WARN"}
    ELSE IF k = "LegacyLogLevel" THEN {Unset, "TRACE"}
    ELSE IF k = "EnvTelemetry" THEN {Unset, "info"}
    ELSE {Unset, "env-token"}

CfgValues(k) ==
    IF k = "log_level" THEN {Nil, "INFO"}
    ELSE IF k = "telemetry" THEN {Nil, "none", "bogus"}
    ELSE {Nil, "file-token"}

\* the state of a process no hook has run in, but for its inputs
HooksFresh ==
    /\ pc = "start"
    /\ envAtStart = env
    /\ viperSet = {}
    /\ viperDefaults = [k \in ConfigKeys |-> Nil]
    /\ GlobalConfig = NilConfig
    /\ SteampipeDir = ""
    /\ logger = [dest |-> "none", level |-> DefaultLogLevel]
    /\ logBuffer = <<>>
    /\ logFile = <<>>
    /\ banners = <<>>
    /\ abortReason = "none"
    /\ waitForTasksChannel = Nil
    /\ tasksCancelFn = Nil
    /\ taskState = "none"
    /\ chClosed = FALSE
    /\ cancelCalled = FALSE
    /\ postBy = "none"
    /\ memoryLimit = 0

InitHooks ==
    /\ cmdName \in Commands
    /\ env \in {e \in [EnvVars -> {Unset, "TRACE", "INFO", "WARN", "info", "env-token"}] :
                  \A k \in EnvVars : e[k] \in EnvValues(k)}
    /\ cfgFile \in {c \in [{"log_level", "telemetry", "cloud_token"} ->
                             {Nil, "INFO", "none", "bogus", "file-token"}] :
                      \A k \in DOMAIN c : c[k] \in CfgValues(k)}
    /\ savedToken \in {"", "saved-token"}
    /\ installDirExists \in BOOLEAN
    /\ HooksFresh

\* one embedded file system and one disk, for the behaviours of the hooks
TemplatesIdle ==
    /\ builtinTemplateFS = [b \in Bundles |->
          [files |-> [f \in EmbNames |-> IF f = "version.json" THEN V1 ELSE "A"],
           sub |-> FALSE]]
    /\ installed = [b \in Bundles |->
          [exists |-> FALSE, files |-> [f \in DiskNames |-> Absent], sub |-> FALSE]]
    /\ templateDirExists = FALSE
    /\ runs = 0
    /\ before = installed
    /\ lastErr = NotRun
    /\ prevErr = NotRun
    /\ writes = <<>>

\* one process, before its hooks run, for the behaviours of the synchronizer
HooksIdle ==
    /\ cmdName = "check"
    /\ env = [k \in EnvVars |-> Unset]
    /\ cfgFile = [k \in {"log_level", "telemetry", "cloud_token"} |-> Nil]
    /\ savedToken = ""
    /\ installDirExists = TRUE
    /\ HooksFresh

NextTemplates == EnsureTemplates

\* the template synchronizer
Init == InitTemplates /\ HooksIdle
Spec == Init /\ [][NextTemplates]_vars

NextHooks ==
    \/ PreRunRecord
    \/ CreateLogger1
    \/ InitGlobalConfig
    \/ ResetLogLevel
    \/ CreateLogger2
    \/ RunScheduledTasks
    \/ SetMemoryLimit
    \/ TaskFinish
    \/ PostRunEnter
    \/ PostTimeout
    \/ PostReceive

\* the hooks around one command
InitProcess == InitHooks /\ TemplatesIdle
SpecHooks == InitProcess /\ [][NextHooks]_vars

\* the hooks, with the timer of postRunHook's select firing once it is armed
FairSpecHooks == SpecHooks /\ WF_vars(PostTimeout)

-----------------------------------------------------------------------------
(* Properties of the template synchronizer *)

\* the last call ran and returned nil
Returned == lastErr = NoFail
\* the last call ran and returned an error
Failed == lastErr \notin {NoFail, NotRun}

\* bundle b's versions differed when the last call started
Differed(b) ==
    getCurrentTemplateVersion(before, b) # getEmbeddedTemplateVersion(b)

\* the installed copy of b holds exactly what the embedded bundle holds
ExactlyEmbedded(b) ==
    /\ installed[b].exists
    /\ \A f \in DiskNames :
         installed[b].files[f] =
            (IF f \in EmbNames THEN builtinTemplateFS[b].files[f] ELSE Absent)
    /\ installed[b].sub = builtinTemplateFS[b].sub
    /\ getCurrentTemplateVersion(installed, b) = getEmbeddedTemplateVersion(b)

\* the top-level files bundle b ships
Shipped(b) == {f \in EmbNames : builtinTemplateFS[b].files[f] # Absent}

\* the installed copy of b holds every shipped top-level file as shipped, and
\* is otherwise as it was when the call started
TopLevelCopied(b) ==
    /\ installed[b].exists
    /\ \A f \in Shipped(b) : installed[b].files[f] = builtinTemplateFS[b].files[f]
    /\ \A f \in DiskNames \ Shipped(b) : installed[b].files[f] = before[b].files[f]
    /\ installed[b].sub = before[b].sub

\* C1 as stated: after a call that returns nil, every bundle whose versions
\* differed is installed with exactly the files, contents and version marker
\* of the embedded bundle.
C1_ExactCopy ==
    Returned => \A b \in Bundles : Differed(b) => ExactlyEmbedded(b)

\* C1 amended: after a call that returns nil, every bundle whose versions
\* differed has each top-level file the bundle ships installed with the
\* shipped contents; files under a subdirectory of the bundle are not copied
\* and every other installed file is left as it was.
C1_TopLevelCopy ==
    Returned => \A b \in Bundles : Differed(b) => TopLevelCopied(b)

C1_Witness ==
    /\ Returned
    /\ \E b \in Bundles :
         /\ Differed(b)
         /\ builtinTemplateFS[b].sub
         /\ before[b].files["a.tmpl"] = "B" /\ installed[b].files["a.tmpl"] = "A"
         /\ installed[b].files["old.tmpl"] = "O"
         /\ before[b].files["version.json"] = V1
         /\ installed[b].files["version.json"] = V2

\* C2: after a call that returns nil, every bundle's installed version marker
\* equals its embedded version marker.
C2_VersionsEqualAfterSync ==
    Returned => \A b \in Bundles :
        getCurrentTemplateVersion(installed, b) = getEmbeddedTemplateVersion(b)

\* C3: a bundle whose versions were equal when a call started gets no write
\* in that call and its installed copy is left as it was, whatever its files
\* hold; and of two calls in a row that both return nil, the second leaves
\* the disk as the first left it.
C3_NoWriteWhenEqual ==
    /\ runs >= 1 =>
         \A b \in Bundles : ~Differed(b) =>
            /\ installed[b] = before[b]
            /\ \A i \in 1..Len(writes) : writes[i].bundle # b
    /\ (runs >= 2 /\ prevErr = NoFail /\ lastErr = NoFail) => installed = before

C3_Witness ==
    /\ runs = 2 /\ prevErr = NoFail /\ lastErr = NoFail
    /\ \E b \in Bundles :
         /\ ~Differed(b)
         /\ getEmbeddedTemplateVersion(b) = "1"
         /\ installed[b].files["a.tmpl"] = "B"
         /\ builtinTemplateFS[b].files["a.tmpl"] = "A"
    /\ \E b \in Bundles : Differed(b) /\ Len(writes) > 0

\* where x stands in a sequence without repetitions (0 when it does not)
Pos(seq, x) ==
    IF \E i \in 1..Len(seq) : seq[i] = x
    THEN CHOOSE i \in 1..Len(seq) : seq[i] = x
    ELSE 0

\* C10: a call that returns an error returns the error of the operation that
\* failed and stops there: bundles after the failing one are untouched, in
\* the failing bundle no entry after the failing one is written, the files
\* written before it hold the shipped contents, and a file is left truncated
\* only by the failed write the call reports.
C10_AbortOnIOError ==
    /\ Failed =>
         /\ lastErr.op = "readdir-root" => (installed = before /\ writes = <<>>)
         /\ lastErr.op # "readdir-root" =>
              LET b == lastErr.bundle
                  k == Pos(BundleOrder, b)
              IN /\ k > 0
                 /\ Differed(b)
                 /\ \A j \in 1..Len(BundleOrder) :
                      j > k => /\ installed[BundleOrder[j]] = before[BundleOrder[j]]
                               /\ \A i \in 1..Len(writes) :
                                    writes[i].bundle # BundleOrder[j]
                 /\ \A j \in 1..Len(BundleOrder) :
                      (j < k /\ Differed(BundleOrder[j])) => TopLevelCopied(BundleOrder[j])
                 /\ lastErr.op = "mkdir" => installed[b] = before[b]
                 /\ lastErr.op = "readdir" =>
                      installed[b] = [before[b] EXCEPT !.exists = TRUE]
                 /\ lastErr.op \in {"read", "write-open", "write-partial"} =>
                      LET p == Pos(EntryOrder, lastErr.file) IN
                      /\ installed[b].exists
                      /\ \A f \in DiskNames :
                           installed[b].files[f] =
                             (IF f \in Shipped(b) /\ Pos(EntryOrder, f) < p
                              THEN builtinTemplateFS[b].files[f]
                              ELSE IF f = lastErr.file /\ lastErr.op = "write-partial"
                              THEN Truncated
                              ELSE before[b].files[f])
                      /\ \A i \in 1..Len(writes) :
                           (writes[i].bundle = b /\ writes[i].op = "write") =>
                              Pos(EntryOrder, writes[i].file) <= p
    /\ \A b \in Bundles, f \in DiskNames :
         (runs >= 1 /\ installed[b].files[f] = Truncated /\ before[b].files[f] # Truncated)
            => lastErr = FP("write-partial", b, f)

\* the first file of the first bundle was written, the write of its version
\* file failed, and the second bundle, also out of date, was left alone
C10_Witness ==
    /\ lastErr = FP("write-open", BundleOrder[1], "version.json")
    /\ before[BundleOrder[1]].files["a.tmpl"] = "B"
    /\ installed[BundleOrder[1]].files["a.tmpl"] = "A"
    /\ installed[BundleOrder[1]].files["version.json"] = V1
    /\ builtinTemplateFS[BundleOrder[1]].files["version.json"] = V2
    /\ Differed(BundleOrder[2])
    /\ installed[BundleOrder[2]] = before[BundleOrder[2]]

-----------------------------------------------------------------------------
(* Properties of the command hooks *)

\* preRunHook went past initGlobalConfig
InitSucceeded ==
    cmdName # "completion"
    /\ pc \in {"loglevel", "logger2", "tasks", "memory", "ran", "postWait", "postDone"}

\* preRunHook ran to its end for a command other than "completion"
PreRunCompleted ==
    cmdName # "completion" /\ pc \in {"ran", "postWait", "postDone"}

\* C4: once postRunHook waits on a launched task it returns, by the
\* completion signal or by the timeout, and when it returns without having
\* received the signal the task's cancel function has been called.
C4_PostRunReturns ==
    /\ [](pc = "postWait" => <>(pc = "postDone"))
    /\ []((pc = "postDone" /\ waitForTasksChannel # Nil) =>
            /\ postBy \in {"signal", "timeout"}
            /\ postBy # "signal" => cancelCalled)

\* postRunHook returned by the timeout from a task that never signalled
C4_Witness ==
    /\ pc = "postDone" /\ waitForTasksChannel # Nil
    /\ postBy = "timeout" /\ cancelCalled
    /\ taskState = "running" /\ ~chClosed

\* C5: for the "completion" command preRunHook records the command, its
\* arguments and the TTY flag and returns; the install directory is not
\* created, no configuration is loaded or stored, no logger is constructed,
\* no task is launched and no memory limit is applied.
C5_CompletionShortCircuits ==
    /\ [](cmdName = "completion" =>
            /\ pc \in {"start", "ran", "postDone"}
            /\ pc # "start" =>
                 viperSet = {"active_command", "active_command_args", "is_terminal_tty"}
            /\ GlobalConfig = NilConfig
            /\ viperDefaults = [k \in ConfigKeys |-> Nil]
            /\ SteampipeDir = ""
            /\ logger.dest = "none" /\ banners = <<>>
            /\ logBuffer = <<>> /\ logFile = <<>>
            /\ waitForTasksChannel = Nil /\ tasksCancelFn = Nil /\ taskState = "none"
            /\ memoryLimit = 0
            /\ env = envAtStart
            /\ abortReason = "none")
    /\ [][cmdName = "completion" =>
            UNCHANGED <<installDirExists, waitForTasksChannel, GlobalConfig,
                        viperDefaults, memoryLimit>>]_vars

\* the hook returned for "completion" with no install directory on disk
C5_Witness ==
    /\ cmdName = "completion" /\ pc = "ran"
    /\ viperSet # {} /\ ~installDirExists

\* the telemetry value the configuration resolves to
ResolvedTelemetry ==
    IF envAtStart["EnvTelemetry"] # Unset THEN envAtStart["EnvTelemetry"]
    ELSE IF cfgFile["telemetry"] # Nil THEN cfgFile["telemetry"]
    ELSE "info"

\* C6 as stated: when validation rejects the telemetry value the process
\* aborts and the process-wide stores hold nothing of the rejected
\* configuration.
C6_NoPartialCommit ==
    abortReason = "validate-telemetry" =>
        /\ pc = "aborted"
        /\ GlobalConfig = NilConfig
        /\ \A k \in {"log_level", "cloud_token"} : viperDefaults[k] = Nil
        /\ viperDefaults["telemetry"] \in {Nil, "info"}

\* C6 amended: a resolved telemetry value outside the telemetry levels makes
\* validation fail and the process abort inside initGlobalConfig, before the
\* log level is propagated, the second logger built, a task launched or the
\* memory limit applied; by then GlobalConfig holds the loaded configuration
\* and the viper defaults hold its file, environment and cloud-token values.
C6_AbortAfterCommit ==
    /\ InitSucceeded => viperGet(viperDefaults, "telemetry") \in TelemetryLevels
    /\ (pc \notin {"start", "logger1", "config"} /\ cmdName # "completion"
           /\ ResolvedTelemetry \notin TelemetryLevels)
         => (pc = "aborted"
             /\ abortReason \in {"validate-telemetry", "bootstrap", "mkdir", "load", "token"})
    /\ abortReason = "validate-telemetry" =>
         /\ pc = "aborted"
         /\ viperDefaults["telemetry"] = ResolvedTelemetry
         /\ ResolvedTelemetry \notin TelemetryLevels
         /\ GlobalConfig = LoadSteampipeConfig(cfgFile)
         /\ cfgFile["log_level"] # Nil => viperDefaults["log_level"] # Nil
         /\ (savedToken # "" \/ envAtStart["EnvCloudToken"] # Unset
               \/ cfgFile["cloud_token"] # Nil) => viperDefaults["cloud_token"] # Nil
         /\ env = envAtStart
         /\ Len(banners) <= 1
         /\ waitForTasksChannel = Nil /\ taskState = "none"
         /\ memoryLimit = 0

C6_Witness ==
    /\ abortReason = "validate-telemetry" /\ pc = "aborted"
    /\ GlobalConfig.loaded /\ GlobalConfig.telemetry = "bogus"
    /\ viperDefaults["telemetry"] = "bogus"
    /\ viperDefaults["cloud_token"] = "saved-token"

\* the value of a key under the precedence defaults < config file <
\* environment; cachedOverEnv says whether the cached token ranks above the
\* environment variable
Highest(key, cachedOverEnv) ==
    LET e == envAtStart IN
    IF key = "telemetry" THEN ResolvedTelemetry
    ELSE IF key = "log_level" THEN
        (IF e["EnvLogLevel"] # Unset THEN e["EnvLogLevel"]
         ELSE IF e["LegacyLogLevel"] # Unset THEN e["LegacyLogLevel"]
         ELSE cfgFile["log_level"])
    ELSE IF key = "cloud_token" THEN
        (IF cachedOverEnv /\ savedToken # "" THEN savedToken
         ELSE IF e["EnvCloudToken"] # Unset THEN e["EnvCloudToken"]
         ELSE IF savedToken # "" THEN savedToken
         ELSE cfgFile["cloud_token"])
    ELSE viperDefaults[key]

\* C7 as stated: after initGlobalConfig succeeds every key holds the value of
\* its highest source in the order defaults < config file < environment <
\* resolved values, the cached cloud token ranking above the environment.
C7_ResolvedOverEnv ==
    InitSucceeded =>
        \A k \in {"telemetry", "log_level", "cloud_token"} :
            viperGet(viperDefaults, k) = Highest(k, TRUE)

\* C7 amended: after initGlobalConfig succeeds every key holds the value of
\* its highest source in the order defaults < config file < environment; for
\* the cloud token the order is config file < cached token < environment
\* variable, so with all three present the value is the variable's.
C7_EnvOverCachedToken ==
    InitSucceeded =>
        \A k \in {"telemetry", "log_level", "cloud_token"} :
            viperGet(viperDefaults, k) = Highest(k, FALSE)

C7_Witness ==
    /\ InitSucceeded
    /\ savedToken = "saved-token"
    /\ cfgFile["cloud_token"] = "file-token"
    /\ envAtStart["EnvCloudToken"] = "env-token"
    /\ viperDefaults["cloud_token"] = "env-token"
    /\ cfgFile["telemetry"] = "bogus" /\ viperDefaults["telemetry"] = "info"

\* the log level the environment specified when the hook started: the
\* current variable's, else the legacy variable's, else none
EnvSpecifiedLevel ==
    IF envAtStart["EnvLogLevel"] # Unset THEN envAtStart["EnvLogLevel"]
    ELSE IF envAtStart["LegacyLogLevel"] # Unset THEN envAtStart["LegacyLogLevel"]
    ELSE Nil

\* C8: when preRunHook has completed for a command other than "completion",
\* the log-level variable holds the effective log level if that differed from
\* the level the environment specified, and the environment is as it was if
\* it did not.
C8_LogLevelPropagated ==
    PreRunCompleted =>
        LET effective == viperGet(viperDefaults, "log_level") IN
        IF effective # EnvSpecifiedLevel
        THEN env = [envAtStart EXCEPT !["EnvLogLevel"] = effective]
        ELSE env = envAtStart

\* a level from the config file handed to an environment that had none
C8_Witness ==
    /\ PreRunCompleted
    /\ EnvSpecifiedLevel = Nil
    /\ viperDefaults["log_level"] = "INFO"
    /\ env["EnvLogLevel"] = "INFO"
    /\ envAtStart["EnvLogLevel"] = Unset

\* C9: the banner is printed by the first logger construction and reaches
\* the destination of no later one, and the second construction writes the
\* buffered lines to the log file before anything else.
C9_BannerOnFirstOnly ==
    /\ \A k \in 1..Len(banners) :
         /\ k = 1 => banners[k].printed
         /\ k > 1 => ~banners[k].written
    /\ (Len(banners) = 2 /\ logger.dest = "file") =>
         /\ Len(logFile) >= Len(logBuffer)
         /\ SubSeq(logFile, 1, Len(logBuffer)) = logBuffer

====
